---- MODULE Spec2Model ----
(***************************************************************************)
(* Model of client/models/core.py: Test, TestCase and their JSON           *)
(* (de)serialization.  Objects live in two stores, tests and cases, each a *)
(* sequence indexed by object identity; a suite is a sequence of case      *)
(* identities.  Every method is an operator on the pair of stores ("heap") *)
(* and every action applies one method call to the current heap.           *)
(***************************************************************************)
EXTENDS Integers, Sequences, FiniteSets, TLC

VARIABLES tests, cases, added, ret

vars == <<tests, cases, added, ret>>

(* ------------------------------ bounds --------------------------------- *)
MaxTests == 2
MaxCases == 2
MaxSuites == 2
MaxSuiteLen == 2

(* ------------------------- values of the model ------------------------- *)
\* Python None for an optional argument: the empty tuple; a given value v: <<v>>.
None == <<>>
Some(v) == <<v>>

\* TestCase.test = None (no owning Test); tests are numbered from 1.
NoTest == 0
\* TestCase.suite_num does not exist before add_suite assigns it.
NoSuiteNum == 0 - 1

Range(s) == {s[i] : i \in DOMAIN s}

RECURSIVE SumSeq(_)
SumSeq(s) == IF s = <<>> THEN 0 ELSE Head(s) + SumSeq(Tail(s))

\* A text is a sequence of lines, each an indentation and a body.
Line(n, b) == [indent |-> n, body |-> b]

MinIndent(text) == CHOOSE n \in {text[i].indent : i \in DOMAIN text} :
                       \A i \in DOMAIN text : n <= text[i].indent

\* utils.dedent: strips the indentation common to all lines.
dedent(text) ==
    IF text = <<>> THEN <<>>
    ELSE [i \in DOMAIN text |-> Line(text[i].indent - MinIndent(text), text[i].body)]

\* The class attribute `type` of TestCase and of the concrete variants.
ClassType == [TestCase |-> "default", CodeCase |-> "code", ConceptCase |-> "concept"]

(* ------------------------------ Test ----------------------------------- *)
\* Test.__init__ without the filter of line 35.
Test_init_unfiltered(h, names, suites, points, note, cache) ==
    [h EXCEPT !.tests = Append(@,
        [names   |-> IF names = None \/ names = Some(<<>>) THEN <<>> ELSE names[1],
         suites  |-> IF suites = None THEN <<>> ELSE suites[1],
         _points |-> points,
         note    |-> dedent(note),
         cache   |-> dedent(cache)])]

\* Test.__init__: the new Test is appended to the store; its identity is its index.
Test_init(h, names, suites, points, note, cache) ==
    [h EXCEPT !.tests = Append(@,
        [names   |-> IF names = None \/ names = Some(<<>>) THEN <<>> ELSE names[1],
         suites  |-> SelectSeq(IF suites = None THEN <<>> ELSE suites[1],
                               LAMBDA suite : suite # <<>>),
         _points |-> points,
         note    |-> dedent(note),
         cache   |-> dedent(cache)])]

\* Test.points testing the truth of _points instead of "is None" (line 59).
points_falsy(h, t) ==
    IF h.tests[t]._points = None \/ h.tests[t]._points = Some(0)
    THEN Len(h.tests[t].suites)
    ELSE h.tests[t]._points[1]

\* Test.points
points(h, t) ==
    IF h.tests[t]._points = None THEN Len(h.tests[t].suites)
    ELSE h.tests[t]._points[1]

\* Test.count_cases
count_cases(h, t) ==
    SumSeq([i \in DOMAIN h.tests[t].suites |-> Len(h.tests[t].suites[i])])

\* TestCase.is_locked with the default of line 156 turned to False.
is_locked_default_false(h, c) ==
    IF "lock" \in DOMAIN h.cases[c]._status THEN h.cases[c]._status["lock"] ELSE FALSE

\* TestCase.is_locked: self._status.get('lock', True)
is_locked(h, c) ==
    IF "lock" \in DOMAIN h.cases[c]._status THEN h.cases[c]._status["lock"] ELSE TRUE

\* Test.count_locked
count_locked(h, t) ==
    SumSeq([i \in DOMAIN h.tests[t].suites |->
        Cardinality({j \in DOMAIN h.tests[t].suites[i] :
                        is_locked(h, h.tests[t].suites[i][j]) = TRUE})])

\* Test.add_suite without the "if suite" test of line 77.
add_suite_unguarded(h, t, suite) ==
    LET appended  == [h.tests EXCEPT ![t].suites = Append(@, suite)]
        suite_num == Len(appended[t].suites) - 1
    IN [tests |-> appended,
        cases |-> [c \in DOMAIN h.cases |->
                     IF c \in Range(suite)
                     THEN [h.cases[c] EXCEPT !.test = t, !.suite_num = suite_num]
                     ELSE h.cases[c]]]

\* Test.add_suite taking suite_num after the append without the "- 1" of line 79.
add_suite_off_by_one(h, t, suite) ==
    IF suite # <<>> THEN
        LET appended  == [h.tests EXCEPT ![t].suites = Append(@, suite)]
            suite_num == Len(appended[t].suites)
        IN [tests |-> appended,
            cases |-> [c \in DOMAIN h.cases |->
                         IF c \in Range(suite)
                         THEN [h.cases[c] EXCEPT !.test = t, !.suite_num = suite_num]
                         ELSE h.cases[c]]]
    ELSE h

\* Test.add_suite
add_suite(h, t, suite) ==
    IF suite # <<>> THEN
        LET appended  == [h.tests EXCEPT ![t].suites = Append(@, suite)]
            suite_num == Len(appended[t].suites) - 1
        IN [tests |-> appended,
            cases |-> [c \in DOMAIN h.cases |->
                         IF c \in Range(suite)
                         THEN [h.cases[c] EXCEPT !.test = t, !.suite_num = suite_num]
                         ELSE h.cases[c]]]
    ELSE h

(* ---------------------------- TestCase --------------------------------- *)
\* TestCase.__init__ (of class cls); status is the keyword-argument mapping.
TestCase_init(h, cls, input_str, outputs, test, status) ==
    [h EXCEPT !.cases = Append(@,
        [cls        |-> cls,
         _input_str |-> dedent(input_str),
         _outputs   |-> outputs,
         test       |-> test,
         _status    |-> status,
         suite_num  |-> NoSuiteNum])]

\* TestCase.set_locked
set_locked(h, c, locked) ==
    [h EXCEPT !.cases[c]._status = [k \in DOMAIN @ \cup {"lock"} |->
                                       IF k = "lock" THEN locked ELSE @[k]]]

\* TestCase.assert_correct_type comparing with TestCase.type instead of cls.type.
assert_correct_type_base_tag(cls, case_json) ==
    IF "type" \notin DOMAIN case_json THEN
        [err |-> "SerializationError",
         msg |-> <<"JSON is missing type ", ClassType[cls]>>,
         case_json |-> case_json]
    ELSE IF case_json["type"] # ClassType["TestCase"] THEN
        [err |-> "SerializationError",
         msg |-> <<"JSON type ", case_json["type"],
                   " does not match TestCase type ", ClassType[cls]>>,
         case_json |-> case_json]
    ELSE [err |-> "", msg |-> <<>>, case_json |-> case_json]

\* TestCase.assert_correct_type: the error raised ("" if none), the parts of its
\* message, and case_json as the call leaves it.
assert_correct_type(cls, case_json) ==
    IF "type" \notin DOMAIN case_json THEN
        [err |-> "SerializationError",
         msg |-> <<"JSON is missing type ", ClassType[cls]>>,
         case_json |-> case_json]
    ELSE IF case_json["type"] # ClassType[cls] THEN
        [err |-> "SerializationError",
         msg |-> <<"JSON type ", case_json["type"],
                   " does not match TestCase type ", ClassType[cls]>>,
         case_json |-> case_json]
    ELSE [err |-> "", msg |-> <<>>, case_json |-> case_json]

\* serialize() of a concrete variant: its type tag and its own fields.  (The base
\* class is abstract: no instance of it is ever put in a suite.)
TestCase_serialize(h, c) ==
    [type   |-> ClassType[h.cases[c].cls],
     input  |-> h.cases[c]._input_str,
     answer |-> h.cases[c]._outputs]

\* cls.deserialize(case_json, info): the base class raises NotImplementedError; a
\* concrete variant checks the type tag and then builds the case from its fields.
TestCase_deserialize(h, cls, case_json, info) ==
    IF cls = "TestCase" THEN [err |-> "NotImplementedError", h |-> h]
    ELSE IF assert_correct_type(cls, case_json).err # "" THEN
        [err |-> assert_correct_type(cls, case_json).err, h |-> h]
    ELSE [err |-> "",
          h   |-> TestCase_init(h, cls, case_json["input"], case_json["answer"],
                                NoTest, [k \in {} |-> TRUE])]

(* ----------------------- Test (de)serialization ------------------------ *)
\* Test.serialize emitting the note without the test of line 129.
Test_serialize_note_always(h, t) ==
    LET self == h.tests[t]
        suites == [i \in DOMAIN self.suites |->
                     [j \in DOMAIN self.suites[i] |->
                        TestCase_serialize(h, self.suites[i][j])]]
        keys == {"names", "note"}
                \cup (IF count_cases(h, t) > 0 THEN {"suites"} ELSE {})
                \cup (IF self._points # None THEN {"points"} ELSE {})
    IN [k \in keys |->
          CASE k = "names"  -> self.names
            [] k = "suites" -> suites
            [] k = "points" -> self._points[1]
            [] k = "note"   -> self.note]

\* Test.serialize
Test_serialize(h, t) ==
    LET self == h.tests[t]
        suites == [i \in DOMAIN self.suites |->
                     [j \in DOMAIN self.suites[i] |->
                        TestCase_serialize(h, self.suites[i][j])]]
        keys == {"names"}
                \cup (IF count_cases(h, t) > 0 THEN {"suites"} ELSE {})
                \cup (IF self._points # None THEN {"points"} ELSE {})
                \cup (IF self.note # <<>> THEN {"note"} ELSE {})
    IN [k \in keys |->
          CASE k = "names"  -> self.names
            [] k = "suites" -> suites
            [] k = "points" -> self._points[1]
            [] k = "note"   -> self.note]

\* The inner loop of Test.deserialize passing over the entries whose type is not
\* in case_map instead of looking it up (line 108).
RECURSIVE deserialize_suite_skip_unknown(_, _, _, _, _)
deserialize_suite_skip_unknown(h, suite, new_suite, assignment_info, case_map) ==
    IF suite = <<>> THEN [err |-> "", h |-> h, new_suite |-> new_suite]
    ELSE LET case == Head(suite) IN
         IF "type" \notin DOMAIN case
         THEN [err |-> "KeyError", h |-> h, new_suite |-> new_suite]
         ELSE IF case["type"] \notin DOMAIN case_map
         THEN deserialize_suite_skip_unknown(h, Tail(suite), new_suite,
                                             assignment_info, case_map)
         ELSE LET r == TestCase_deserialize(h, case_map[case["type"]], case,
                                            assignment_info)
              IN IF r.err # "" THEN [err |-> r.err, h |-> h, new_suite |-> new_suite]
                 ELSE deserialize_suite_skip_unknown(r.h, Tail(suite),
                                        Append(new_suite, Len(r.h.cases)),
                                        assignment_info, case_map)

\* The inner loop of Test.deserialize (lines 106-110): the cases of one suite, in
\* order; the first failure ends it.
RECURSIVE deserialize_suite(_, _, _, _, _)
deserialize_suite(h, suite, new_suite, assignment_info, case_map) ==
    IF suite = <<>> THEN [err |-> "", h |-> h, new_suite |-> new_suite]
    ELSE LET case == Head(suite) IN
         IF "type" \notin DOMAIN case \/ case["type"] \notin DOMAIN case_map
         THEN [err |-> "KeyError", h |-> h, new_suite |-> new_suite]
         ELSE LET r == TestCase_deserialize(h, case_map[case["type"]], case,
                                            assignment_info)
              IN IF r.err # "" THEN [err |-> r.err, h |-> h, new_suite |-> new_suite]
                 ELSE deserialize_suite(r.h, Tail(suite),
                                        Append(new_suite, Len(r.h.cases)),
                                        assignment_info, case_map)

\* The outer loop of Test.deserialize (lines 104-111) filling Test t.
RECURSIVE deserialize_suites(_, _, _, _, _)
deserialize_suites(h, t, suites, assignment_info, case_map) ==
    IF suites = <<>> THEN [err |-> "", h |-> h]
    ELSE LET r == deserialize_suite(h, Head(suites), <<>>, assignment_info, case_map)
         IN IF r.err # "" THEN [err |-> r.err, h |-> h]
            ELSE deserialize_suites(add_suite(r.h, t, r.new_suite), t, Tail(suites),
                                    assignment_info, case_map)

\* Test.deserialize reading points with the default 0 instead of None (line 100).
Test_deserialize_points_default_0(h, test_json, assignment_info, case_map) ==
    LET h0 == Test_init(h,
                  IF "names" \in DOMAIN test_json THEN Some(test_json["names"]) ELSE None,
                  None,
                  IF "points" \in DOMAIN test_json THEN Some(test_json["points"]) ELSE Some(0),
                  IF "note" \in DOMAIN test_json THEN test_json["note"] ELSE <<>>,
                  <<>>)
        test == Len(h0.tests)
        r == deserialize_suites(h0, test,
                  IF "suites" \in DOMAIN test_json THEN test_json["suites"] ELSE <<>>,
                  assignment_info, case_map)
    IN [err |-> r.err, h |-> r.h, test |-> test]

\* Test.deserialize: the error raised ("" if none), the heap with the new Test and
\* its cases, and the identity of the Test returned.
Test_deserialize(h, test_json, assignment_info, case_map) ==
    LET h0 == Test_init(h,
                  IF "names" \in DOMAIN test_json THEN Some(test_json["names"]) ELSE None,
                  None,
                  IF "points" \in DOMAIN test_json THEN Some(test_json["points"]) ELSE None,
                  IF "note" \in DOMAIN test_json THEN test_json["note"] ELSE <<>>,
                  <<>>)
        test == Len(h0.tests)
        r == deserialize_suites(h0, test,
                  IF "suites" \in DOMAIN test_json THEN test_json["suites"] ELSE <<>>,
                  assignment_info, case_map)
    IN [err |-> r.err, h |-> r.h, test |-> test]

(* ------------------------------ state ---------------------------------- *)
\* The object graph the methods work on, before and after a step.
heap == [tests |-> tests, cases |-> cases]
heapNext == [tests |-> tests', cases |-> cases']

\* The call just made: the method, the object it returned or acted on (0 if
\* none), its argument, the error it raised ("" if none) and what else it left.
Call(op, self, arg, err, out) ==
    [op |-> op, self |-> self, arg |-> arg, err |-> err, out |-> out]

NoStatus == [k \in {} |-> TRUE]

\* Suites (lists of cases) over the first n cases, and lists of such suites.
SuitesOver(n) == UNION {[1..k -> 1..n] : k \in 0..MaxSuiteLen}
SuiteLists(n) == UNION {[1..k -> SuitesOver(n)] : k \in 0..MaxSuites}

Init ==
    /\ tests = <<>>
    /\ cases = <<>>
    /\ added = <<>>
    /\ ret = Call("start", 0, <<>>, "", <<>>)

(* ----------------------------- actions --------------------------------- *)
\* test = Test(names, suites, points, note, cache)
NewTest(names, suites, pts, note, cache) ==
    /\ Len(tests) < MaxTests
    /\ LET h == Test_init(heap, names, suites, pts, note, cache) IN
        /\ tests' = h.tests
        /\ cases' = h.cases
        /\ ret' = Call("Test", Len(h.tests),
                       [names |-> names, suites |-> suites, points |-> pts,
                        note |-> note, cache |-> cache], "", <<>>)
    /\ UNCHANGED added

\* test.add_suite(suite); added logs, in call order, the Test and the position
\* (counted from 1) of every suite that add_suite attached.
AddSuite(t, suite) ==
    /\ Len(tests[t].suites) < MaxSuites
    /\ LET h == add_suite(heap, t, suite) IN
        /\ tests' = h.tests
        /\ cases' = h.cases
        /\ added' = IF Len(h.tests[t].suites) > Len(tests[t].suites)
                    THEN Append(added, <<t, Len(h.tests[t].suites)>>) ELSE added
    /\ ret' = Call("add_suite", t, suite, "", <<>>)

\* case = cls(input_str, outputs, test, **status)
NewTestCase(cls, input_str, outputs, test, status) ==
    /\ Len(cases) < MaxCases
    /\ LET h == TestCase_init(heap, cls, input_str, outputs, test, status) IN
        /\ tests' = h.tests
        /\ cases' = h.cases
        /\ ret' = Call("TestCase", Len(h.cases), status, "", <<>>)
    /\ UNCHANGED added

\* case.set_locked(locked)
SetLocked(c, locked) ==
    /\ LET h == set_locked(heap, c, locked) IN
        /\ tests' = h.tests
        /\ cases' = h.cases
    /\ ret' = Call("set_locked", c, locked, "", <<>>)
    /\ UNCHANGED added

\* test = Test.deserialize(test_json, assignment_info, case_map): an error leaves
\* no reference to the Test under construction, so the stores are as before.
Deserialize(test_json, assignment_info, case_map) ==
    LET r == Test_deserialize(heap, test_json, assignment_info, case_map) IN
    /\ Len(tests) < MaxTests
    /\ r.err = "" => Len(r.h.cases) <= MaxCases
    /\ IF r.err = ""
       THEN /\ tests' = r.h.tests
            /\ cases' = r.h.cases
            /\ added' = added \o [i \in DOMAIN r.h.tests[r.test].suites |-> <<r.test, i>>]
       ELSE UNCHANGED <<tests, cases, added>>
    /\ ret' = Call("deserialize", IF r.err = "" THEN r.test ELSE 0,
                   [test_json |-> test_json, case_map |-> case_map], r.err, <<>>)

\* cls.assert_correct_type(case_json)
AssertCorrectType(cls, case_json) ==
    /\ ret' = Call("assert_correct_type", 0, [cls |-> cls, case_json |-> case_json],
                   assert_correct_type(cls, case_json).err,
                   [msg |-> assert_correct_type(cls, case_json).msg,
                    case_json |-> assert_correct_type(cls, case_json).case_json])
    /\ UNCHANGED <<tests, cases, added>>

(* ------------- the object graph: construction and add_suite ------------ *)
Text0 == <<>>
TextA == <<Line(0, "a")>>
TextIndented == <<Line(1, "a")>>

GraphNewTest ==
    \E suites \in {None} \cup {Some(l) : l \in SuiteLists(Len(cases))} :
        NewTest(None, suites, None, Text0, Text0)

\* add_suite on any Test with any suite, empty or not, over the existing cases
AnyAddSuite ==
    \E t \in DOMAIN tests, suite \in SuitesOver(Len(cases)) : AddSuite(t, suite)

GraphNewTestCase ==
    \E test \in {NoTest} \cup DOMAIN tests :
        NewTestCase("CodeCase", TextA, "o1", test, NoStatus)

NextGraph == GraphNewTest \/ AnyAddSuite \/ GraphNewTestCase

SpecGraph == Init /\ [][NextGraph]_vars

\* The suite that the k-th logged add_suite call attached.
AddedSuite(k) == tests[added[k][1]].suites[added[k][2]]

\* C1: Test.suites never contains an empty suite, whatever lists of suites the
\* constructor was given and whatever suites add_suite was called with.
C1_NoEmptySuite ==
    \A t \in DOMAIN tests : \A i \in DOMAIN tests[t].suites :
        tests[t].suites[i] # <<>>

\* A Test was just constructed from a list holding an empty and a non-empty suite.
C1_Witness ==
    /\ ret.op = "Test"
    /\ ret.arg.suites # None
    /\ \E i, j \in DOMAIN ret.arg.suites[1] :
          ret.arg.suites[1][i] = <<>> /\ ret.arg.suites[1][j] # <<>>
    /\ Len(tests[ret.self].suites) > 0

\* C2: every TestCase in Test.suites has its test back-reference equal to that
\* Test and its suite_num equal to the 0-based index of the suite holding it.
C2_BackReferences ==
    \A t \in DOMAIN tests : \A i \in DOMAIN tests[t].suites :
        \A j \in DOMAIN tests[t].suites[i] :
            /\ cases[tests[t].suites[i][j]].test = t
            /\ cases[tests[t].suites[i][j]].suite_num = i - 1

\* C3 as stated: the cases of every suite attached by add_suite point to the Test
\* and to the suite's 0-based index, after any later add_suite calls.
C3_AddedSuitesLinked ==
    \A k \in DOMAIN added : \A c \in Range(AddedSuite(k)) :
        /\ cases[c].test = added[k][1]
        /\ cases[c].suite_num = added[k][2] - 1

\* C3 amended: the cases of a suite attached by add_suite point to the Test and
\* to the suite's 0-based index as long as no later add_suite call, on any Test,
\* attached a suite containing the case.
C3_AddedSuitesLinkedUntilReadded ==
    \A k \in DOMAIN added : \A c \in Range(AddedSuite(k)) :
        (\A k2 \in DOMAIN added : k2 > k => c \notin Range(AddedSuite(k2)))
        => /\ cases[c].test = added[k][1]
           /\ cases[c].suite_num = added[k][2] - 1

\* Two add_suite calls on different Tests, the earlier suite's cases not re-added,
\* and the earlier suite not at index 0.
C3_Witness ==
    \E k, k2 \in DOMAIN added :
        /\ k < k2
        /\ added[k][1] # added[k2][1]
        /\ added[k][2] > 1
        /\ \A c \in Range(AddedSuite(k)) :
              \A k3 \in DOMAIN added : k3 > k => c \notin Range(AddedSuite(k3))

(* --------------- one Test's fields, points and serialize --------------- *)
\* Constructor arguments of the Tests built here: names, points, note, cache.
TestArgs ==
    {[names |-> None,                   points |-> None,    note |-> Text0,        cache |-> Text0],
     [names |-> Some(<<>>),             points |-> Some(0), note |-> TextIndented, cache |-> Text0],
     [names |-> Some(<<"q1">>),         points |-> None,    note |-> TextIndented, cache |-> TextIndented],
     [names |-> Some(<<"q1", "q2">>),   points |-> Some(5), note |-> Text0,        cache |-> TextIndented]}

FieldsNewTest ==
    \E a \in TestArgs : NewTest(a.names, None, a.points, a.note, a.cache)

FieldsNewTestCase ==
    \E cls \in {"CodeCase", "ConceptCase"} :
        NewTestCase(cls, TextIndented, "o1", NoTest, NoStatus)

NextFields == FieldsNewTest \/ AnyAddSuite \/ FieldsNewTestCase

SpecFields == Init /\ [][NextFields]_vars

\* C4: add_suite with an empty suite changes nothing: suites, names, the explicit
\* and the effective points, note, cache, count_cases, count_locked of every Test
\* and the test and suite_num of every TestCase are as before the call.
C4_EmptyAddSuiteNoOp ==
    [][(ret'.op = "add_suite" /\ ret'.arg = <<>>) =>
        /\ DOMAIN tests' = DOMAIN tests
        /\ \A t \in DOMAIN tests :
            /\ tests'[t].suites = tests[t].suites
            /\ tests'[t].names = tests[t].names
            /\ tests'[t]._points = tests[t]._points
            /\ points(heapNext, t) = points(heap, t)
            /\ tests'[t].note = tests[t].note
            /\ tests'[t].cache = tests[t].cache
            /\ count_cases(heapNext, t) = count_cases(heap, t)
            /\ count_locked(heapNext, t) = count_locked(heap, t)
        /\ DOMAIN cases' = DOMAIN cases
        /\ \A c \in DOMAIN cases :
            /\ cases'[c].test = cases[c].test
            /\ cases'[c].suite_num = cases[c].suite_num]_vars

\* add_suite was just called with an empty suite on a named Test that has suites.
C4_Witness ==
    /\ ret.op = "add_suite"
    /\ ret.arg = <<>>
    /\ tests[ret.self].suites # <<>>
    /\ tests[ret.self].names # <<>>

\* C5: the explicit points value a Test was constructed with never changes; if
\* there is one (0 included), points returns it and serialize emits it under
\* 'points'; if there is none, points is the number of suites and serialize has
\* no 'points' key.
C5_Points ==
    /\ [](\A t \in DOMAIN tests :
            IF tests[t]._points # None
            THEN /\ points(heap, t) = tests[t]._points[1]
                 /\ "points" \in DOMAIN Test_serialize(heap, t)
                 /\ Test_serialize(heap, t)["points"] = tests[t]._points[1]
            ELSE /\ points(heap, t) = Len(tests[t].suites)
                 /\ "points" \notin DOMAIN Test_serialize(heap, t))
    /\ [][\A t \in DOMAIN tests' :
            IF t \in DOMAIN tests
            THEN tests'[t]._points = tests[t]._points
            ELSE ret'.op = "Test" => tests'[t]._points = ret'.arg.points]_vars
    /\ [][(ret'.op = "add_suite" /\ ret'.arg # <<>> /\ tests[ret'.self]._points = None)
            => points(heapNext, ret'.self) = points(heap, ret'.self) + 1]_vars

\* A Test given the explicit value 0 holds two suites, another Test given no
\* value holds one.
C5_Witness ==
    \E t, u \in DOMAIN tests :
        /\ tests[t]._points = Some(0) /\ Len(tests[t].suites) = 2
        /\ tests[u]._points = None /\ Len(tests[u].suites) = 1

\* C6: serialize always has 'names'; it has 'suites' exactly when the Test holds
\* a case, and then it is the list, suite by suite and case by case, of the
\* cases' own serializations; it has 'note' exactly when the note is non-empty;
\* it never has 'cache'.
C6_SerializeShape ==
    \A t \in DOMAIN tests :
        LET json == Test_serialize(heap, t)
            suites == tests[t].suites
        IN /\ "names" \in DOMAIN json
           /\ json["names"] = tests[t].names
           /\ "suites" \in DOMAIN json <=> (\E i \in DOMAIN suites : suites[i] # <<>>)
           /\ "suites" \in DOMAIN json <=> count_cases(heap, t) > 0
           /\ "suites" \in DOMAIN json =>
                /\ Len(json["suites"]) = Len(suites)
                /\ \A i \in DOMAIN suites :
                    /\ Len(json["suites"][i]) = Len(suites[i])
                    /\ \A j \in DOMAIN suites[i] :
                         json["suites"][i][j] = TestCase_serialize(heap, suites[i][j])
           /\ "note" \in DOMAIN json <=> tests[t].note # <<>>
           /\ "note" \in DOMAIN json => json["note"] = tests[t].note
           /\ "cache" \notin DOMAIN json

\* A Test with a cache and no note holds two suites whose cases are of two
\* variants; another Test holds no case.
C6_Witness ==
    \E t, u \in DOMAIN tests :
        /\ tests[t].note = <<>> /\ tests[t].cache # <<>>
        /\ Len(tests[t].suites) = 2
        /\ \E i, j \in DOMAIN tests[t].suites :
             cases[tests[t].suites[i][1]].cls # cases[tests[t].suites[j][1]].cls
        /\ tests[u].suites = <<>>

(* ------------------------- lock status and counts ---------------------- *)
LockNewTest == NewTest(None, None, None, Text0, Text0)

\* TestCase('a', o1) and TestCase('a', o2, lock=False)
LockNewTestCase ==
    \E a \in {[outputs |-> "o1", status |-> NoStatus],
              [outputs |-> "o2", status |-> [lock |-> FALSE]]} :
        NewTestCase("CodeCase", TextA, a.outputs, NoTest, a.status)

LockSetLocked == \E c \in DOMAIN cases, locked \in BOOLEAN : SetLocked(c, locked)

NextLock == LockNewTest \/ AnyAddSuite \/ LockNewTestCase \/ LockSetLocked

SpecLock == Init /\ [][NextLock]_vars

\* The positions <<suite, case>> of a Test's suites that hold a locked case.
LockedPositions(t) ==
    {p \in UNION {{<<i, j>> : j \in DOMAIN tests[t].suites[i]} : i \in DOMAIN tests[t].suites} :
        is_locked(heap, tests[t].suites[p[1]][p[2]])}

\* C10: a case constructed without a lock status is locked; set_locked(b) makes
\* is_locked b, and only set_locked on that case changes its is_locked;
\* set_locked changes no Test, no other case and nothing else of its case; and
\* count_locked is the number of case entries of Test.suites that are locked,
\* between 0 and count_cases.
C10_Locking ==
    /\ [](/\ (ret.op = "TestCase" /\ "lock" \notin DOMAIN ret.arg)
                => is_locked(heap, ret.self) = TRUE
          /\ ret.op = "set_locked" => is_locked(heap, ret.self) = ret.arg
          /\ \A t \in DOMAIN tests :
                /\ count_locked(heap, t) = Cardinality(LockedPositions(t))
                /\ 0 <= count_locked(heap, t)
                /\ count_locked(heap, t) <= count_cases(heap, t))
    /\ [][\A c \in DOMAIN cases :
            \/ ret'.op = "set_locked" /\ ret'.self = c
            \/ is_locked(heapNext, c) = is_locked(heap, c)]_vars
    /\ [][ret'.op = "set_locked" =>
            /\ tests' = tests
            /\ DOMAIN cases' = DOMAIN cases
            /\ \A c \in DOMAIN cases :
                /\ cases'[c]._outputs = cases[c]._outputs
                /\ cases'[c].test = cases[c].test
                /\ cases'[c].suite_num = cases[c].suite_num
                /\ cases'[c]._input_str = cases[c]._input_str
                /\ c # ret'.self => cases'[c] = cases[c]]_vars

\* set_locked(False) was just called on a case built without a lock status that
\* sits in a Test beside a case built unlocked and locked since.
C10_Witness ==
    /\ ret.op = "set_locked"
    /\ ret.arg = FALSE
    /\ \E t \in DOMAIN tests :
         /\ count_cases(heap, t) >= 2
         /\ count_locked(heap, t) = 1
         /\ \E i \in DOMAIN tests[t].suites : ret.self \in Range(tests[t].suites[i])
    /\ cases[ret.self]._outputs = "o1"
    /\ \E c \in DOMAIN cases : c # ret.self /\ is_locked(heap, c) /\ cases[c]._outputs = "o2"

(* ------------------------ JSON (de)serialization ----------------------- *)
\* Case entries of a fixture: of a registered variant, of an unknown type, and
\* without a type.
CaseJson(type) == [type |-> type, input |-> TextIndented, answer |-> "o1"]
UntypedCaseJson == [input |-> TextIndented, answer |-> "o1"]

\* Fixtures given to Test.deserialize besides the output of Test.serialize.
TestJsons ==
    {<<>>,
     [names |-> <<"q1">>, points |-> 5, note |-> TextIndented,
      suites |-> << <<CaseJson("code")>>, <<CaseJson("concept")>> >>],
     [names |-> <<>>, suites |-> << <<>>, <<CaseJson("concept"), CaseJson("code")>> >>],
     [suites |-> << <<CaseJson("code"), CaseJson("zzz")>> >>],
     [suites |-> << <<CaseJson("concept")>>, <<CaseJson("zzz")>> >>],
     [points |-> 0, suites |-> << <<CaseJson("code")>>, <<UntypedCaseJson>> >>]}

\* Case type registries: complete, partial, one whose 'concept' entry is a class
\* of another tag, and one whose 'concept' entry is the abstract base class.
CaseMaps ==
    {[code |-> "CodeCase", concept |-> "ConceptCase"],
     [code |-> "CodeCase"],
     [code |-> "CodeCase", concept |-> "CodeCase"],
     [code |-> "CodeCase", concept |-> "TestCase"]}

JsonDeserialize ==
    \E test_json \in TestJsons \cup {Test_serialize(heap, t) : t \in DOMAIN tests},
       case_map \in CaseMaps :
        Deserialize(test_json, "info", case_map)

NextJson == FieldsNewTest \/ AnyAddSuite \/ FieldsNewTestCase \/ JsonDeserialize

SpecJson == Init /\ [][NextJson]_vars

\* The registry with an entry for each concrete variant.
FullCaseMap == [code |-> "CodeCase", concept |-> "ConceptCase"]

\* C7: deserializing the serialization of a Test, with the registry of the
\* variants, succeeds and gives a Test that serializes to the same JSON.
C7_RoundTrip ==
    \A t \in DOMAIN tests :
        LET r == Test_deserialize(heap, Test_serialize(heap, t), "info", FullCaseMap)
        IN /\ r.err = ""
           /\ Test_serialize(r.h, r.test) = Test_serialize(heap, t)

\* Test.deserialize was just given the serialization of a Test that was built
\* with a note and no points and then given a suite, and returned another Test.
C7_Witness ==
    /\ ret.op = "deserialize"
    /\ ret.err = ""
    /\ \E t \in DOMAIN tests :
         /\ t # ret.self
         /\ tests[t].suites # <<>>
         /\ tests[t]._points = None
         /\ tests[t].note # <<>>
         /\ <<t, 1>> \in Range(added)
         /\ ret.arg.test_json = Test_serialize(heap, t)
         /\ ret.arg.case_map = FullCaseMap
         /\ Len(tests[ret.self].suites) = Len(tests[t].suites)

\* The case entries of a fixture, suite after suite.
RECURSIVE Flatten(_)
Flatten(suites) == IF suites = <<>> THEN <<>> ELSE Head(suites) \o Flatten(Tail(suites))

CaseEntries(test_json) ==
    IF "suites" \in DOMAIN test_json THEN Flatten(test_json["suites"]) ELSE <<>>

\* The entry carries a type tag that the registry lacks.
Unregistered(entry, case_map) ==
    "type" \in DOMAIN entry /\ entry["type"] \notin DOMAIN case_map

\* The entry has a registered tag and its variant deserializes it.
Deserializable(entry, case_map) ==
    /\ "type" \in DOMAIN entry
    /\ entry["type"] \in DOMAIN case_map
    /\ TestCase_deserialize(heap, case_map[entry["type"]], entry, "info").err = ""

\* C8 as stated: a fixture with an entry of unregistered type makes deserialize
\* raise the key-lookup error and return no Test; a fixture whose entries all
\* have a registered type that their variant deserializes gives a Test.
C8_AllOrNothing ==
    ret.op = "deserialize" =>
        LET entries == CaseEntries(ret.arg.test_json)
            case_map == ret.arg.case_map
        IN /\ (\E k \in DOMAIN entries : Unregistered(entries[k], case_map))
                => ret.err = "KeyError" /\ ret.self = 0
           /\ (\A k \in DOMAIN entries : Deserializable(entries[k], case_map))
                => ret.err = "" /\ ret.self \in DOMAIN tests

\* C8 amended: such a fixture makes deserialize raise and return no Test, and
\* leave every Test and case as it was; the error is the key-lookup error when
\* the variants deserialize every entry before the first of unregistered type,
\* and the first failing variant's error otherwise.
C8_AllOrNothingFirstError ==
    /\ [](ret.op = "deserialize" =>
            LET entries == CaseEntries(ret.arg.test_json)
                case_map == ret.arg.case_map
                Failing == {k \in DOMAIN entries : ~Deserializable(entries[k], case_map)}
                first == CHOOSE k \in Failing : \A k2 \in Failing : k <= k2
            IN /\ (\E k \in DOMAIN entries : Unregistered(entries[k], case_map))
                    => /\ ret.err # ""
                       /\ ret.self = 0
                       /\ Unregistered(entries[first], case_map) => ret.err = "KeyError"
                       /\ ("type" \in DOMAIN entries[first]
                           /\ entries[first]["type"] \in DOMAIN case_map)
                            => ret.err = TestCase_deserialize(heap,
                                   case_map[entries[first]["type"]], entries[first],
                                   "info").err
               /\ (\A k \in DOMAIN entries : Deserializable(entries[k], case_map))
                    => ret.err = "" /\ ret.self \in DOMAIN tests)
    /\ [][(ret'.op = "deserialize" /\ ret'.err # "")
            => tests' = tests /\ cases' = cases]_vars

\* deserialize raised the key-lookup error on a fixture whose second suite has
\* the entry of unregistered type, after a first suite that deserializes.
C8_Witness ==
    /\ ret.op = "deserialize"
    /\ ret.err = "KeyError"
    /\ ret.self = 0
    /\ "suites" \in DOMAIN ret.arg.test_json
    /\ Len(ret.arg.test_json["suites"]) = 2
    /\ ret.arg.test_json["suites"][1] # <<>>
    /\ ret.arg.test_json["suites"][2] # <<>>
    /\ Deserializable(ret.arg.test_json["suites"][1][1], ret.arg.case_map)
    /\ Unregistered(ret.arg.test_json["suites"][2][1], ret.arg.case_map)

(* -------------------------- assert_correct_type ------------------------ *)
\* Case entries with every kind of type field, two inputs and two answers.
CaseJsons ==
    {[input |-> i, answer |-> a] : i \in {TextA, TextIndented}, a \in {"o1", "o2"}}
    \cup {[type |-> type, input |-> i, answer |-> a] :
            type \in {"default", "code", "concept", "zzz"},
            i \in {TextA, TextIndented}, a \in {"o1", "o2"}}

\* The call about to be made: a class and a case entry.
InitType ==
    /\ tests = <<>>
    /\ cases = <<>>
    /\ added = <<>>
    /\ \E cls \in DOMAIN ClassType, case_json \in CaseJsons :
         ret = Call("call", 0, [cls |-> cls, case_json |-> case_json], "", <<>>)

TypeAssertCorrectType ==
    /\ ret.op = "call"
    /\ AssertCorrectType(ret.arg.cls, ret.arg.case_json)

NextType == TypeAssertCorrectType

SpecType == InitType /\ [][NextType]_vars

\* C9: assert_correct_type returns without error exactly when case_json has a
\* 'type' equal to the class's tag; without a 'type' it raises a
\* SerializationError whose message names the expected tag; with another 'type'
\* it raises one whose message names that tag and the expected tag; case_json is
\* left as it was.
C9_AssertCorrectType ==
    ret.op = "assert_correct_type" =>
        LET expected == ClassType[ret.arg.cls]
            case_json == ret.arg.case_json
        IN /\ ret.err = "" <=> ("type" \in DOMAIN case_json /\ case_json["type"] = expected)
           /\ "type" \notin DOMAIN case_json =>
                /\ ret.err = "SerializationError"
                /\ expected \in Range(ret.out.msg)
           /\ ("type" \in DOMAIN case_json /\ case_json["type"] # expected) =>
                /\ ret.err = "SerializationError"
                /\ case_json["type"] \in Range(ret.out.msg)
                /\ expected \in Range(ret.out.msg)
           /\ ret.out.case_json = case_json

\* The class tagged 'code' was given an entry of type 'concept' and raised.
C9_Witness ==
    /\ ret.op = "assert_correct_type"
    /\ ret.arg.cls = "CodeCase"
    /\ "type" \in DOMAIN ret.arg.case_json
    /\ ret.arg.case_json["type"] = "concept"
    /\ ret.err = "SerializationError"

====
